---- MODULE Spec2Model ----
(***************************************************************************)
(* AMFI downloader: the spreadsheet section extractor (ExcelParser), the   *)
(* ingestion step (DownloadService._parse_and_store), the download         *)
(* workflow with its audit log, and the year read queries.                 *)
(*                                                                         *)
(* Text is modelled as a sequence of one-character strings, so that        *)
(* substring tests, lower(), strip(), title(), float() and str() are       *)
(* computed and not assumed.  The three non-ASCII characters of the last   *)
(* header keyword are written "u00E2", "u201A", "u00B9".                   *)
(*                                                                         *)
(* The grid is read with pandas 2.x semantics: an empty cell is NaN, and   *)
(* astype(str) turns NaN into the text "nan".                              *)
(***************************************************************************)
EXTENDS Integers, Sequences, FiniteSets, TLC

(***************************************************************************)
(* Python str primitives                                                   *)
(***************************************************************************)
UpperChars == <<"A","B","C","D","E","F","G","H","I","J","K","L","M","N","O","P","Q","R","S","T","U","V","W","X","Y","Z">>

LowerChars == <<"a","b","c","d","e","f","g","h","i","j","k","l","m","n","o","p","q","r","s","t","u","v","w","x","y","z">>

DigitChars == <<"0","1","2","3","4","5","6","7","8","9">>

IndexIn(c, s) == IF \E i \in 1..Len(s) : s[i] = c
                 THEN CHOOSE i \in 1..Len(s) : s[i] = c
                 ELSE 0

char_lower(c) == LET i == IndexIn(c, UpperChars) IN IF i = 0 THEN c ELSE LowerChars[i]

char_upper(c) == LET i == IndexIn(c, LowerChars) IN IF i = 0 THEN c ELSE UpperChars[i]

IsCased(c) == IndexIn(c, UpperChars) # 0 \/ IndexIn(c, LowerChars) # 0

IsSpace(c) == c \in {" ", "\t", "\n", "\r"}

\* str.lower()
str_lower(s) == [i \in 1..Len(s) |-> char_lower(s[i])]

\* str.title(): a cased character is upper-cased when it follows an uncased
\* character (or starts the string) and lower-cased otherwise
str_title(s) == [i \in 1..Len(s) |->
                   IF i = 1 \/ ~IsCased(s[i-1]) THEN char_upper(s[i]) ELSE char_lower(s[i])]

\* str.strip()
str_strip(s) ==
  LET keep == {i \in 1..Len(s) : ~IsSpace(s[i])}
      Min(S) == CHOOSE x \in S : \A y \in S : x <= y
      Max(S) == CHOOSE x \in S : \A y \in S : x >= y
  IN IF keep = {} THEN <<>> ELSE SubSeq(s, Min(keep), Max(keep))

\* the Python test "k in s" on two strings
str_in(k, s) == \E i \in 0..(Len(s) - Len(k)) : \A j \in 1..Len(k) : s[i + j] = k[j]

\* " ".join(cells)
RECURSIVE str_join(_)
str_join(cells) == IF cells = <<>> THEN <<>>
                   ELSE IF Len(cells) = 1 THEN cells[1]
                   ELSE cells[1] \o <<" ">> \o str_join(Tail(cells))

\* str(n) for an integer n
RECURSIVE str_of_nat(_)
str_of_nat(n) == IF n < 10 THEN <<DigitChars[n + 1]>>
                 ELSE str_of_nat(n \div 10) \o <<DigitChars[(n % 10) + 1]>>

str_of_int(n) == IF n < 0 THEN <<"-">> \o str_of_nat(0 - n) ELSE str_of_nat(n)

\* the last two digits read as a number and written back: a leading zero is lost
str_last2_unpadded(s) ==
  IF Len(s) <= 2 THEN s
  ELSE IF s[Len(s) - 1] = "0" THEN <<s[Len(s)]>>
  ELSE SubSeq(s, Len(s) - 1, Len(s))

\* s[-2:]
str_last2(s) == IF Len(s) <= 2 THEN s ELSE SubSeq(s, Len(s) - 1, Len(s))

(***************************************************************************)
(* float(x): the values are NaN, +/-Infinity, or a decimal number kept     *)
(* exactly as num * 10^-scale with no trailing zero in the fraction.       *)
(* Exponents and digit-group underscores are outside the input alphabet.   *)
(***************************************************************************)
NaNValue == [kind |-> "nan", num |-> 0, scale |-> 0]

InfValue(neg) == [kind |-> "inf", num |-> IF neg THEN 0 - 1 ELSE 1, scale |-> 0]

ValueError == [kind |-> "ValueError", num |-> 0, scale |-> 0]

TypeError == [kind |-> "TypeError", num |-> 0, scale |-> 0]

IsDigits(s) == \A i \in 1..Len(s) : IndexIn(s[i], DigitChars) # 0

RECURSIVE DigitsValue(_)
DigitsValue(s) == IF s = <<>> THEN 0
                  ELSE 10 * DigitsValue(SubSeq(s, 1, Len(s) - 1))
                       + (IndexIn(s[Len(s)], DigitChars) - 1)

RECURSIVE Normalize(_, _)
Normalize(num, scale) == IF scale > 0 /\ num % 10 = 0
                         THEN Normalize(num \div 10, scale - 1)
                         ELSE [kind |-> "num", num |-> num, scale |-> scale]

\* None stands for the Python None of a missing column
None == <<"None">>

py_float(x) ==
  IF x = None THEN TypeError
  ELSE
  LET digits(neg, ip, fp) ==
        IF IsDigits(ip) /\ IsDigits(fp) /\ Len(ip) + Len(fp) > 0
        THEN Normalize(IF neg THEN 0 - DigitsValue(ip \o fp) ELSE DigitsValue(ip \o fp),
                       Len(fp))
        ELSE ValueError
      split(neg, body, dot) ==
        digits(neg, IF dot = 0 THEN body ELSE SubSeq(body, 1, dot - 1),
                    IF dot = 0 THEN <<>> ELSE SubSeq(body, dot + 1, Len(body)))
      signed(neg, body) ==
        IF body = <<"n","a","n">> THEN NaNValue
        ELSE IF body \in {<<"i","n","f">>, <<"i","n","f","i","n","i","t","y">>}
        THEN InfValue(neg)
        ELSE split(neg, body, IndexIn(".", body))
      stripped(s) ==
        signed(s # <<>> /\ s[1] = "-",
               IF s # <<>> /\ s[1] \in {"+", "-"} THEN Tail(s) ELSE s)
  IN stripped(str_lower(str_strip(x)))

(***************************************************************************)
(* ExcelParser: keyword tables                                             *)
(***************************************************************************)
START_KEYWORDS == <<<<"g","r","o","w","t","h">>, <<"e","q","u","i","t","y">>, <<"o","r","i","e","n","t","e","d">>>>

END_KEYWORDS == <<<<"s","u","b"," ","t","o","t","a","l">>, <<"s","u","b","t","o","t","a","l">>, <<"s","u","b","-","t","o","t","a","l">>>>

HEADER_KEYWORDS == <<<<"s","c","h","e","m","e">>, <<"n","e","t">>, <<"a","s","s","e","t","s">>, <<"a","u","m">>, <<"r","s",".">>, <<"u00E2","u201A","u00B9">>>>

\* the dict in insertion order, as <<pattern, label>> pairs
SCHEME_MAPPING == <<
  <<<<"m","u","l","t","i"," ","c","a","p"," ","f","u","n","d">>, <<"M","U","L","T","I"," ","C","A","P"," ","F","U","N","D">>>>,
  <<<<"l","a","r","g","e"," ","c","a","p"," ","f","u","n","d">>, <<"L","A","R","G","E"," ","C","A","P"," ","F","U","N","D">>>>,
  <<<<"l","a","r","g","e"," ","&"," ","m","i","d"," ","c","a","p"," ","f","u","n","d">>, <<"L","A","R","G","E"," ","&"," ","M","I","D"," ","C","A","P"," ","F","U","N","D">>>>,
  <<<<"m","i","d"," ","c","a","p"," ","f","u","n","d">>, <<"M","I","D"," ","C","A","P"," ","F","U","N","D">>>>,
  <<<<"s","m","a","l","l"," ","c","a","p"," ","f","u","n","d">>, <<"S","M","A","L","L"," ","C","A","P"," ","F","U","N","D">>>>,
  <<<<"d","i","v","i","d","e","n","d"," ","y","i","e","l","d"," ","f","u","n","d">>, <<"D","I","V","I","D","E","N","D"," ","Y","I","E","L","D"," ","F","U","N","D">>>>,
  <<<<"v","a","l","u","e"," ","f","u","n","d","/","c","o","n","t","r","a"," ","f","u","n","d">>, <<"V","A","L","U","E"," ","F","U","N","D","/","C","O","N","T","R","A"," ","F","U","N","D">>>>,
  <<<<"f","o","c","u","s","e","d"," ","f","u","n","d">>, <<"F","O","C","U","S","E","D"," ","F","U","N","D">>>>,
  <<<<"s","e","c","t","o","r","a","l","/","t","h","e","m","a","t","i","c">>, <<"S","E","C","T","O","R","A","L","/","T","H","E","M","A","T","I","C"," ","F","U","N","D","S">>>>,
  <<<<"e","l","s","s">>, <<"E","L","S","S">>>>,
  <<<<"f","l","e","x","i"," ","c","a","p"," ","f","u","n","d">>, <<"F","L","E","X","I"," ","C","A","P"," ","F","U","N","D">>>> >>

INVALID_KEYWORDS == <<<<"s","u","b"," ","t","o","t","a","l">>, <<"s","u","b","t","o","t","a","l">>, <<"s","u","b","-","t","o","t","a","l">>,
                      <<"g","r","o","w","t","h","/","e","q","u","i","t","y">>, <<"o","r","i","e","n","t","e","d"," ","s","c","h","e","m","e">>>>

MONTH_NAMES == <<
  <<<<"j","a","n">>, <<"J","a","n">>>>, <<<<"f","e","b">>, <<"F","e","b">>>>, <<<<"m","a","r">>, <<"M","a","r">>>>, <<<<"a","p","r">>, <<"A","p","r">>>>,
  <<<<"m","a","y">>, <<"M","a","y">>>>, <<<<"j","u","n">>, <<"J","u","n">>>>, <<<<"j","u","l">>, <<"J","u","l">>>>, <<<<"a","u","g">>, <<"A","u","g">>>>,
  <<<<"s","e","p">>, <<"S","e","p">>>>, <<<<"o","c","t">>, <<"O","c","t">>>>, <<<<"n","o","v">>, <<"N","o","v">>>>, <<<<"d","e","c">>, <<"D","e","c">>>> >>

\* column positions of the scheme name and of the net inflow
SCHEME_COL == 1

INFLOW_COL == 6

any_keyword_in(keywords, text) == \E k \in 1..Len(keywords) : str_in(keywords[k], text)

all_keywords_in(keywords, text) == \A k \in 1..Len(keywords) : str_in(keywords[k], text)

(***************************************************************************)
(* ExcelParser: the pure helpers                                           *)
(***************************************************************************)
\* the validator comparing the cell as written, without lower-casing it
_is_invalid_row_cased(scheme_text) == any_keyword_in(INVALID_KEYWORDS, scheme_text)

_is_invalid_row(scheme_text) == any_keyword_in(INVALID_KEYWORDS, str_lower(scheme_text))

\* the lookup keeping the last matching entry of the table instead of
\* returning at the first
_standardize_scheme_name_last(scheme_raw) ==
  LET scheme_lower == str_strip(str_lower(scheme_raw))
      hits == {k \in 1..Len(SCHEME_MAPPING) : str_in(SCHEME_MAPPING[k][1], scheme_lower)}
  IN IF hits # {}
     THEN SCHEME_MAPPING[CHOOSE k \in hits : \A h \in hits : h <= k][2]
     ELSE str_title(str_strip(scheme_raw))

_standardize_scheme_name(scheme_raw) ==
  LET scheme_lower == str_strip(str_lower(scheme_raw))
      hits == {k \in 1..Len(SCHEME_MAPPING) : str_in(SCHEME_MAPPING[k][1], scheme_lower)}
  IN IF hits # {}
     THEN SCHEME_MAPPING[CHOOSE k \in hits : \A h \in hits : k <= h][2]
     ELSE str_title(str_strip(scheme_raw))

_format_month_label(month, year) ==
  LET key  == str_lower(month)
      hits == {k \in 1..Len(MONTH_NAMES) : MONTH_NAMES[k][1] = key}
      month_abbr == IF hits # {} THEN MONTH_NAMES[CHOOSE k \in hits : TRUE][2]
                    ELSE str_title(month)
      year_short == str_last2(str_of_int(year))
  IN <<"0","1","-">> \o month_abbr \o <<"-">> \o year_short

(***************************************************************************)
(* The sheets.  A sheet is a sequence of rows of raw cells; a raw cell is   *)
(* a text or NaN (an empty cell as pandas.read_excel returns it).  The     *)
(* rows of the model are named, RowCells gives the cells of a name, and a   *)
(* data-frame row is a pair <<name, ncols>>: the first ncols cells of it.   *)
(***************************************************************************)
NaN == <<"NaN">>

RowCells == [
  hdr |-> <<<<"S","r">>, <<"S","c","h","e","m","e"," ","N","a","m","e">>, NaN, NaN, NaN, NaN, <<"N","e","t"," ","I","n","f","l","o","w">>>>,
  ttl |-> <<<<"A">>, <<"G","r","o","w","t","h","/","E","q","u","i","t","y"," ","O","r","i","e","n","t","e","d"," ","S","c","h","e","m","e","s">>, NaN, NaN, NaN, NaN, NaN>>,
  sml |-> <<<<"i">>, <<"S","m","a","l","l"," ","C","a","p"," ","F","u","n","d">>, NaN, NaN, NaN, NaN, <<"3","4","7","6",".","0","4">>>>,
  lrg |-> <<<<"i","i">>, <<"L","a","r","g","e"," ","C","a","p"," ","F","u","n","d">>, NaN, NaN, NaN, NaN, <<"9","7","1",".","9","7">>>>,
  dup |-> <<<<"i","i","i">>, <<"S","M","A","L","L"," ","C","A","P"," ","F","U","N","D">>, NaN, NaN, NaN, NaN, <<"-","1","2",".","5">>>>,
  bad |-> <<<<"i","v">>, <<"M","i","d"," ","C","a","p"," ","F","u","n","d">>, NaN, NaN, NaN, NaN, <<"N","/","A">>>>,
  noi |-> <<<<"v">>, <<"M","i","d"," ","C","a","p"," ","F","u","n","d">>, NaN, NaN, NaN, NaN, NaN>>,
  emp |-> <<<<"v","i">>, NaN, NaN, NaN, NaN, NaN, <<"4","2",".","0">>>>,
  wsp |-> <<<<"v","i","i">>, <<" "," ">>, NaN, NaN, NaN, NaN, <<"7">>>>,
  blk |-> <<NaN, NaN, NaN, NaN, NaN, NaN, NaN>>,
  sub |-> <<NaN, <<"S","u","b"," ","T","o","t","a","l">>, NaN, NaN, NaN, NaN, <<"2","1","2","1","4",".","2","9">>>> ]

RowNames == DOMAIN RowCells

FullWidth == 7

\* DataFrame.astype(str) on one cell
astype_str(cell) == IF cell = NaN THEN <<"n","a","n">> ELSE cell

\* the cells of a data-frame row after astype(str)
row_cells(row) == [j \in 1..row[2] |-> astype_str(RowCells[row[1]][j])]

\* " ".join(row).lower()
row_text(row) == str_lower(str_join(row_cells(row)))

\* pandas isna() of every cell of a row of the string frame
row_all_na(row) == \A j \in 1..row[2] : row_cells(row)[j] = NaN

\* the column counts of the sheets of the model
Widths == {2, FullWidth}

Rows == RowNames \X Widths

\* the function f with its values computed once
Table(f) == f @@ <<>>

\* the row tests of the three locator scans, tabulated per row
HeaderHit == Table([r \in Rows |-> any_keyword_in(HEADER_KEYWORDS, row_text(r))])

StartHit == Table([r \in Rows |-> all_keywords_in(START_KEYWORDS, row_text(r))])

EndHit == Table([r \in Rows |-> any_keyword_in(END_KEYWORDS, row_text(r))])

AllNa == Table([r \in Rows |-> row_all_na(r)])

NoneIdx == 0 - 1

\* faulty variant: the last matching row instead of the first
_find_header_row_last(df) ==
  LET RECURSIVE scan(_)
      scan(i) == IF i < 0 THEN NoneIdx
                 ELSE IF HeaderHit[df[i + 1]] THEN i
                 ELSE scan(i - 1)
  IN scan(Len(df) - 1)

\* row indices are 0-based as in the source: row i of df is df[i + 1]
_find_header_row(df) ==
  LET RECURSIVE scan(_)
      scan(i) == IF i >= Len(df) THEN NoneIdx
                 ELSE IF HeaderHit[df[i + 1]] THEN i
                 ELSE scan(i + 1)
  IN scan(0)

\* faulty variant: a section with no terminator runs to the end of the frame
_find_growth_equity_section_open(df) ==
  LET RECURSIVE scan_start(_)
      scan_start(i) == IF i >= Len(df) THEN NoneIdx
                       ELSE IF StartHit[df[i + 1]] THEN i
                       ELSE scan_start(i + 1)
      RECURSIVE scan_end(_)
      scan_end(i) == IF i >= Len(df) THEN Len(df)
                     ELSE IF EndHit[df[i + 1]] THEN i
                     ELSE scan_end(i + 1)
      ended(start_idx) ==
        [start_idx |-> start_idx,
         end_idx |-> IF start_idx # NoneIdx THEN scan_end(start_idx + 1) ELSE NoneIdx]
  IN ended(scan_start(0))

_find_growth_equity_section(df) ==
  LET RECURSIVE scan_start(_)
      scan_start(i) == IF i >= Len(df) THEN NoneIdx
                       ELSE IF StartHit[df[i + 1]] THEN i
                       ELSE scan_start(i + 1)
      RECURSIVE scan_end(_)
      scan_end(i) == IF i >= Len(df) THEN NoneIdx
                     ELSE IF EndHit[df[i + 1]] THEN i
                     ELSE scan_end(i + 1)
      ended(start_idx) ==
        [start_idx |-> start_idx,
         end_idx |-> IF start_idx # NoneIdx THEN scan_end(start_idx + 1) ELSE NoneIdx]
  IN ended(scan_start(0))

\* the body of the loop of _parse_section_data on one row
parse_row(row) ==
  LET body(scheme_raw, net_inflow) ==
        IF scheme_raw = <<>> \/ _is_invalid_row(scheme_raw)
        THEN [emit |-> FALSE, scheme |-> <<>>, net_inflow |-> NaNValue]
        ELSE IF net_inflow.kind \in {"ValueError", "TypeError"}
        THEN [emit |-> FALSE, scheme |-> <<>>, net_inflow |-> NaNValue]
        ELSE [emit |-> TRUE, scheme |-> _standardize_scheme_name(scheme_raw),
              net_inflow |-> net_inflow]
  IN body(IF row[2] > SCHEME_COL
          THEN str_strip(row_cells(row)[SCHEME_COL + 1]) ELSE <<>>,
          py_float(IF row[2] > INFLOW_COL
                   THEN row_cells(row)[INFLOW_COL + 1] ELSE None))

ParsedRow == Table([r \in Rows |-> parse_row(r)])

\* faulty variant: a row whose category was already emitted is skipped
_parse_section_data_dedup(section_df, month, year) ==
  LET RECURSIVE loop(_, _, _)
      step(i, parsed_data, month_label, p) ==
        IF p.emit /\ \A k \in 1..Len(parsed_data) : parsed_data[k].scheme # p.scheme
        THEN loop(i + 1, Append(parsed_data,
               [month |-> month_label, scheme |-> p.scheme,
                net_inflow |-> p.net_inflow]), month_label)
        ELSE loop(i + 1, parsed_data, month_label)
      loop(i, parsed_data, month_label) ==
        IF i > Len(section_df) THEN parsed_data
        ELSE step(i, parsed_data, month_label, ParsedRow[section_df[i]])
  IN loop(1, <<>>, _format_month_label(month, year))

_parse_section_data(section_df, month, year) ==
  LET RECURSIVE loop(_, _, _)
      step(i, parsed_data, month_label, p) ==
        IF p.emit
        THEN loop(i + 1, Append(parsed_data,
               [month |-> month_label, scheme |-> p.scheme,
                net_inflow |-> p.net_inflow]), month_label)
        ELSE loop(i + 1, parsed_data, month_label)
      loop(i, parsed_data, month_label) ==
        IF i > Len(section_df) THEN parsed_data
        ELSE step(i, parsed_data, month_label, ParsedRow[section_df[i]])
  IN loop(1, <<>>, _format_month_label(month, year))

\* DataFrame.dropna(how='all') on the rows of the string frame
dropna_all(df) == SelectSeq(df, LAMBDA r : ~AllNa[r])

\* a file is a sheet of ncols columns, or a file pandas cannot read
Sheet(rows, ncols) == [readable |-> TRUE, rows |-> rows, ncols |-> ncols]

Unreadable == [readable |-> FALSE, rows |-> <<>>, ncols |-> 0]

NoParse == [data |-> <<>>, diag |-> "None",
            header_row |-> NoneIdx, start_idx |-> NoneIdx, end_idx |-> NoneIdx]

\* pd.read_excel(file_path, header=None).astype(str): the rows of the sheet
read_excel(file) == [i \in 1..Len(file.rows) |-> <<file.rows[i], file.ncols>>]

\* parse_excel returns the list .data; .diag is the line it logs, and
\* header_row, start_idx, end_idx are its locals (NoneIdx when not set)
parse_excel(file, month, year) ==
  IF ~file.readable
  THEN [data |-> <<>>, diag |-> "Exception",
        header_row |-> NoneIdx, start_idx |-> NoneIdx, end_idx |-> NoneIdx]
  ELSE
  LET sectioned(header_row, df, se) ==
        IF se.start_idx = NoneIdx \/ se.end_idx = NoneIdx
        THEN [data |-> <<>>, diag |-> "SectionNotFound", header_row |-> header_row,
              start_idx |-> se.start_idx, end_idx |-> se.end_idx]
        ELSE [data |-> _parse_section_data(
                         dropna_all(SubSeq(df, se.start_idx + 1, se.end_idx)),
                         month, year),
              diag |-> "Parsed", header_row |-> header_row,
              start_idx |-> se.start_idx, end_idx |-> se.end_idx]
      framed(header_row, df) == sectioned(header_row, df, _find_growth_equity_section(df))
      located(df_raw, header_row) ==
        IF header_row = NoneIdx
        THEN [data |-> <<>>, diag |-> "HeaderNotFound",
              header_row |-> NoneIdx, start_idx |-> NoneIdx, end_idx |-> NoneIdx]
        ELSE framed(header_row, SubSeq(df_raw, header_row + 2, Len(df_raw)))
      read(df_raw) == located(df_raw, _find_header_row(df_raw))
  IN read(read_excel(file))

(***************************************************************************)
(* AmfiMonthlyData: the store.  A row is [id, month, scheme_category,      *)
(* net_inflow]; net_inflow is DecimalField(decimal_places=2).              *)
(***************************************************************************)
DECIMAL_PLACES == 2

\* Decimal.quantize to DECIMAL_PLACES places, ROUND_HALF_EVEN, as the field
\* does when the value is written; NaN is kept
to_decimal(v) ==
  IF v.kind # "num" THEN v
  ELSE IF v.scale <= DECIMAL_PLACES
  THEN [kind |-> "num", num |-> v.num * (10 ^ (DECIMAL_PLACES - v.scale)),
        scale |-> DECIMAL_PLACES]
  ELSE LET unit == 10 ^ (v.scale - DECIMAL_PLACES)
           mag  == IF v.num < 0 THEN 0 - v.num ELSE v.num
           q    == mag \div unit
           r    == mag % unit
           up   == 2 * r > unit \/ (2 * r = unit /\ q % 2 = 1)
           m    == IF up THEN q + 1 ELSE q
       IN [kind |-> "num", num |-> IF v.num < 0 THEN 0 - m ELSE m,
           scale |-> DECIMAL_PLACES]

next_id(rows) == IF rows = {} THEN 1
                 ELSE 1 + (CHOOSE i \in {r.id : r \in rows} : \A r \in rows : r.id <= i)

\* faulty variant: the lookup takes the category alone for the key
matching_any_month(rows, month_label, scheme) ==
  {r \in rows : r.scheme_category = scheme}

\* the rows the lookup of update_or_create selects
matching(rows, month_label, scheme) ==
  {r \in rows : r.month = month_label /\ r.scheme_category = scheme}

\* faulty variant: objects.create, a new row on every call
update_or_create_insert(rows, record) ==
  IF record.net_inflow.kind = "inf"
  THEN [raised |-> TRUE, rows |-> rows]
  ELSE [raised |-> FALSE,
        rows |-> rows \cup {[id |-> next_id(rows), month |-> record.month,
                             scheme_category |-> record.scheme,
                             net_inflow |-> to_decimal(record.net_inflow)]}]

\* the upsert keyed on the category alone, the month being one of the defaults
update_or_create_by_category(rows, record) ==
  LET upsert(found) ==
        IF record.net_inflow.kind = "inf" \/ Cardinality(found) > 1
        THEN [raised |-> TRUE, rows |-> rows]
        ELSE IF found = {}
        THEN [raised |-> FALSE,
              rows |-> rows \cup {[id |-> next_id(rows), month |-> record.month,
                                   scheme_category |-> record.scheme,
                                   net_inflow |-> to_decimal(record.net_inflow)]}]
        ELSE [raised |-> FALSE,
              rows |-> {IF r \in found
                        THEN [r EXCEPT !.month = record.month,
                                       !.net_inflow = to_decimal(record.net_inflow)]
                        ELSE r : r \in rows}]
  IN upsert({r \in rows : r.scheme_category = record.scheme})

\* objects.update_or_create(month=, scheme_category=, defaults={'net_inflow':})
\* .raised is TRUE when the call raises and leaves the table as it was
update_or_create(rows, record) ==
  LET upsert(found) ==
        IF record.net_inflow.kind = "inf" \/ Cardinality(found) > 1
        THEN [raised |-> TRUE, rows |-> rows]
        ELSE IF found = {}
        THEN [raised |-> FALSE,
              rows |-> rows \cup {[id |-> next_id(rows), month |-> record.month,
                                   scheme_category |-> record.scheme,
                                   net_inflow |-> to_decimal(record.net_inflow)]}]
        ELSE [raised |-> FALSE,
              rows |-> {IF r \in found
                        THEN [r EXCEPT !.net_inflow = to_decimal(record.net_inflow)]
                        ELSE r : r \in rows}]
  IN upsert(matching(rows, record.month, record.scheme))

\* the function without its except clause: the exception of a raising upsert
\* leaves it, its result being no outcome dict
_parse_and_store_uncaught(rows, file, month, year, fail) ==
  LET RECURSIVE loop(_, _, _, _)
      upserted(p, i, tbl, records_stored, u) ==
        IF i = fail \/ u.raised
        THEN [status |-> "raised", records_stored |-> None,
              rows |-> tbl, applied |-> records_stored, parse |-> p]
        ELSE loop(p, i + 1, u.rows, records_stored + 1)
      loop(p, i, tbl, records_stored) ==
        IF i > Len(p.data)
        THEN [status |-> "parse_success", records_stored |-> records_stored,
              rows |-> tbl, applied |-> records_stored, parse |-> p]
        ELSE upserted(p, i, tbl, records_stored, update_or_create(tbl, p.data[i]))
      stored(p) ==
        IF p.data = <<>>
        THEN [status |-> "parse_failed", records_stored |-> 0,
              rows |-> rows, applied |-> 0, parse |-> p]
        ELSE loop(p, 1, rows, 0)
  IN stored(parse_excel(file, month, year))

\* the loop with the try inside it: a raising upsert is passed over and the
\* run goes on to the next record
_parse_and_store_lenient(rows, file, month, year, fail) ==
  LET RECURSIVE loop(_, _, _, _)
      upserted(p, i, tbl, records_stored, u) ==
        IF i = fail \/ u.raised
        THEN loop(p, i + 1, tbl, records_stored)
        ELSE loop(p, i + 1, u.rows, records_stored + 1)
      loop(p, i, tbl, records_stored) ==
        IF i > Len(p.data)
        THEN [status |-> "parse_success", records_stored |-> records_stored,
              rows |-> tbl, applied |-> records_stored, parse |-> p]
        ELSE upserted(p, i, tbl, records_stored, update_or_create(tbl, p.data[i]))
      stored(p) ==
        IF p.data = <<>>
        THEN [status |-> "parse_failed", records_stored |-> 0,
              rows |-> rows, applied |-> 0, parse |-> p]
        ELSE loop(p, 1, rows, 0)
  IN stored(parse_excel(file, month, year))

(***************************************************************************)
(* DownloadService._parse_and_store.  fail is the index of the upsert on   *)
(* which the database raises (0: none does); a build whose DecimalField    *)
(* rejects NaN is the choice of fail at the first NaN record.              *)
(***************************************************************************)
_parse_and_store(rows, file, month, year, fail) ==
  LET RECURSIVE loop(_, _, _, _)
      upserted(p, i, tbl, records_stored, u) ==
        IF i = fail \/ u.raised
        THEN [status |-> "parse_error", records_stored |-> 0,
              rows |-> tbl, applied |-> records_stored, parse |-> p]
        ELSE loop(p, i + 1, u.rows, records_stored + 1)
      loop(p, i, tbl, records_stored) ==
        IF i > Len(p.data)
        THEN [status |-> "parse_success", records_stored |-> records_stored,
              rows |-> tbl, applied |-> records_stored, parse |-> p]
        ELSE upserted(p, i, tbl, records_stored, update_or_create(tbl, p.data[i]))
      stored(p) ==
        IF p.data = <<>>
        THEN [status |-> "parse_failed", records_stored |-> 0,
              rows |-> rows, applied |-> 0, parse |-> p]
        ELSE loop(p, 1, rows, 0)
  IN stored(parse_excel(file, month, year))

(***************************************************************************)
(* URLGenerator, LoggerService / DownloadLog, and the download workflow    *)
(***************************************************************************)
BASE_URL_HEAD == <<"h","t","t","p","s",":","/","/","p","o","r","t","a","l",".","a","m","f","i","i","n","d","i","a",".","c","o","m","/","s","p","a","g","e","s","/","a","m">>

BASE_URL_TAIL == <<"r","e","p","o",".","x","l","s">>

\* MONTH_MAP: the number of a month to its short form
MONTH_MAP == <<<<"j","a","n">>, <<"f","e","b">>, <<"m","a","r">>, <<"a","p","r">>, <<"m","a","y">>, <<"j","u","n">>,
               <<"j","u","l">>, <<"a","u","g">>, <<"s","e","p">>, <<"o","c","t">>, <<"n","o","v">>, <<"d","e","c">>>>

generate_url_for_date(month, year) ==
  BASE_URL_HEAD \o str_lower(month) \o str_of_int(year) \o BASE_URL_TAIL

\* now is <<month number, year>> of datetime.now()
generate_current_month_url(now) ==
  [url |-> BASE_URL_HEAD \o MONTH_MAP[now[1]] \o str_of_int(now[2]) \o BASE_URL_TAIL,
   month |-> MONTH_MAP[now[1]], year |-> now[2]]

NoStatus == 0

log_success(entries, url, month, year, http_status) ==
  Append(entries, [url |-> url, month |-> month, year |-> year,
                   http_status_code |-> http_status, status |-> "success",
                   file_downloaded |-> TRUE])

log_failure(entries, url, month, year, http_status) ==
  Append(entries, [url |-> url, month |-> month, year |-> year,
                   http_status_code |-> http_status, status |-> "failed",
                   file_downloaded |-> FALSE])

log_skip(entries, url, month, year) ==
  Append(entries, [url |-> url, month |-> month, year |-> year,
                   http_status_code |-> NoStatus, status |-> "skipped",
                   file_downloaded |-> FALSE])

\* DownloadLog.has_successful_download / LoggerService.check_previous_success
has_successful_download(entries, url) ==
  \E k \in 1..Len(entries) :
    entries[k].url = url /\ entries[k].status = "success" /\ entries[k].file_downloaded

\* The answer of the server to requests.get and the writing of the file:
\* [kind |-> "ok", code |-> 200, body |-> the document], an answer with
\* another status code, or one of the three exception branches.
\* _download_file returns the result dict; .entries is the log after it and
\* .file the file it wrote.
Absent == "absent"

\* the function whose last except clause returns without calling log_failure
_download_file_unlogged(entries, url, month, year, http) ==
  IF http.kind = "ok" /\ http.code = 200
  THEN [status |-> "success", http_status |-> 200, file |-> http.body,
        parse_status |-> Absent, parsed_records |-> 0,
        entries |-> log_success(entries, url, month, year, 200)]
  ELSE IF http.kind = "ok"
  THEN [status |-> "failed", http_status |-> http.code, file |-> Unreadable,
        parse_status |-> Absent, parsed_records |-> 0,
        entries |-> log_failure(entries, url, month, year, http.code)]
  ELSE [status |-> "failed", http_status |-> NoStatus, file |-> Unreadable,
        parse_status |-> Absent, parsed_records |-> 0,
        entries |-> IF http.kind = "exception" THEN entries
                    ELSE log_failure(entries, url, month, year, NoStatus)]

_download_file(entries, url, month, year, http) ==
  IF http.kind = "ok" /\ http.code = 200
  THEN [status |-> "success", http_status |-> 200, file |-> http.body,
        parse_status |-> Absent, parsed_records |-> 0,
        entries |-> log_success(entries, url, month, year, 200)]
  ELSE IF http.kind = "ok"
  THEN [status |-> "failed", http_status |-> http.code, file |-> Unreadable,
        parse_status |-> Absent, parsed_records |-> 0,
        entries |-> log_failure(entries, url, month, year, http.code)]
  ELSE [status |-> "failed", http_status |-> NoStatus, file |-> Unreadable,
        parse_status |-> Absent, parsed_records |-> 0,
        entries |-> log_failure(entries, url, month, year, NoStatus)]

NoIngest == [status |-> Absent, records_stored |-> 0, applied |-> 0, parse |-> NoParse]

\* _process_download returns the result dict; .entries and .rows are the two
\* tables after it, .ingest what _parse_and_store did (NoIngest if not called)
_process_download(entries, rows, url, month, year, http, fail) ==
  LET stored(download_result, parse_result) ==
        [download_result EXCEPT !.parsed_records = parse_result.records_stored,
                                !.parse_status = parse_result.status]
        @@ [rows |-> parse_result.rows, ingest |-> parse_result, downloaded |-> TRUE]
      downloaded(download_result) ==
        IF download_result.status = "success"
        THEN stored(download_result,
                    _parse_and_store(rows, download_result.file, month, year, fail))
        ELSE download_result
             @@ [rows |-> rows, ingest |-> NoIngest, downloaded |-> TRUE]
      checked(month_label) ==
        IF has_successful_download(entries, url) /\ \E r \in rows : r.month = month_label
        THEN [status |-> "skipped", http_status |-> NoStatus, file |-> Unreadable,
              parse_status |-> Absent, parsed_records |-> 0,
              entries |-> log_skip(entries, url, month, year),
              rows |-> rows, ingest |-> NoIngest, downloaded |-> FALSE]
        ELSE downloaded(_download_file(entries, url, month, year, http))
  IN checked(_format_month_label(month, year))

VALID_MONTHS == {MONTH_MAP[k] : k \in 1..Len(MONTH_MAP)}

\* a dict of status 'error': nothing is logged, downloaded or stored
ErrorResult(entries, rows) ==
  [status |-> "error", http_status |-> NoStatus, file |-> Unreadable,
   parse_status |-> Absent, parsed_records |-> 0,
   entries |-> entries, rows |-> rows, ingest |-> NoIngest, downloaded |-> FALSE]

execute_download_for_date(entries, rows, month, year, http, fail) ==
  LET dated(month_lower) ==
        IF month_lower \notin VALID_MONTHS
        THEN ErrorResult(entries, rows)
        ELSE _process_download(entries, rows, generate_url_for_date(month_lower, year),
                               month_lower, year, http, fail)
  IN dated(str_lower(month))

execute_download(entries, rows, now, http, fail) ==
  LET current(url_data) ==
        _process_download(entries, rows, url_data.url, url_data.month, url_data.year,
                          http, fail)
  IN current(generate_current_month_url(now))

\* int(year) of the view: the value, or NoneIdx for a ValueError
py_int(s) ==
  LET t == str_strip(s)
  IN IF t # <<>> /\ IsDigits(t) THEN DigitsValue(t) ELSE NoneIdx

\* DownloadResponseSerializer.is_valid: status is one of the three choices
\* (the other required fields are present in every dict with such a status)
serializer_accepts(r) == r.status \in {"success", "failed", "skipped"}

HTTP_200_OK == 200

HTTP_400_BAD_REQUEST == 400

HTTP_404_NOT_FOUND == 404

HTTP_500_INTERNAL_SERVER_ERROR == 500

\* TriggerDownloadView.post: month and year are the query parameters (None
\* when absent).  .code is the status code of the response, .status the
\* status it carries; .service is the dict the service returned.
TriggerDownloadView_post(entries, rows, month, year, now, http, fail) ==
  LET respond(r) ==
        IF ~serializer_accepts(r)
        THEN [code |-> HTTP_500_INTERNAL_SERVER_ERROR, status |-> "error", service |-> r]
        ELSE [code |-> IF r.status \in {"success", "skipped"} THEN HTTP_200_OK
                       ELSE HTTP_500_INTERNAL_SERVER_ERROR,
              status |-> r.status, service |-> r]
      dated(year_int) ==
        IF year_int = NoneIdx
        THEN [code |-> HTTP_400_BAD_REQUEST, status |-> "error",
              service |-> ErrorResult(entries, rows)]
        ELSE respond(execute_download_for_date(entries, rows, month, year_int, http, fail))
  IN IF month # None /\ month # <<>> /\ year # None /\ year # <<>>
     THEN dated(py_int(year))
     ELSE respond(execute_download(entries, rows, now, http, fail))

(***************************************************************************)
(* The year read views                                                     *)
(***************************************************************************)
\* the list naming the sectoral category by its pattern, not by its label
LARGE_MIDCAP_BUCKET_by_pattern == {
  <<"L","A","R","G","E"," ","C","A","P"," ","F","U","N","D">>, <<"M","I","D"," ","C","A","P"," ","F","U","N","D">>, <<"L","A","R","G","E"," ","&"," ","M","I","D"," ","C","A","P"," ","F","U","N","D">>, <<"F","L","E","X","I"," ","C","A","P"," ","F","U","N","D">>,
  <<"F","O","C","U","S","E","D"," ","F","U","N","D">>, <<"V","A","L","U","E"," ","F","U","N","D","/","C","O","N","T","R","A"," ","F","U","N","D">>, <<"D","I","V","I","D","E","N","D"," ","Y","I","E","L","D"," ","F","U","N","D">>, <<"E","L","S","S">>,
  <<"S","E","C","T","O","R","A","L","/","T","H","E","M","A","T","I","C">>, <<"M","U","L","T","I"," ","C","A","P"," ","F","U","N","D">> }

LARGE_MIDCAP_BUCKET == {
  <<"L","A","R","G","E"," ","C","A","P"," ","F","U","N","D">>, <<"M","I","D"," ","C","A","P"," ","F","U","N","D">>, <<"L","A","R","G","E"," ","&"," ","M","I","D"," ","C","A","P"," ","F","U","N","D">>, <<"F","L","E","X","I"," ","C","A","P"," ","F","U","N","D">>,
  <<"F","O","C","U","S","E","D"," ","F","U","N","D">>, <<"V","A","L","U","E"," ","F","U","N","D","/","C","O","N","T","R","A"," ","F","U","N","D">>, <<"D","I","V","I","D","E","N","D"," ","Y","I","E","L","D"," ","F","U","N","D">>, <<"E","L","S","S">>,
  <<"S","E","C","T","O","R","A","L","/","T","H","E","M","A","T","I","C"," ","F","U","N","D","S">>, <<"M","U","L","T","I"," ","C","A","P"," ","F","U","N","D">> }

SMALL_CAP == <<"S","M","A","L","L"," ","C","A","P"," ","F","U","N","D">>

\* the characters in code-point order, for the comparison of str
CODE_ORDER == <<" ","&","-",".","/","0","1","2","3","4","5","6","7","8","9","A","B","C","D","E","F","G","H","I","J","K","L","M","N","O","P","Q","R","S","T","U","V","W","X","Y","Z","a","b","c","d","e","f","g","h","i","j","k","l","m","n","o","p","q","r","s","t","u","v","w","x","y","z">>

str_lt(a, b) ==
  \E k \in 1..(Len(a) + 1) :
    /\ \A j \in 1..(k - 1) : j <= Len(b) /\ a[j] = b[j]
    /\ \/ k = Len(a) + 1 /\ Len(b) >= k
       \/ k <= Len(a) /\ k <= Len(b) /\ IndexIn(a[k], CODE_ORDER) < IndexIn(b[k], CODE_ORDER)

\* sorted(S) for a set of str
RECURSIVE sorted(_)
sorted(S) == IF S = {} THEN <<>>
             ELSE LET m == CHOOSE x \in S : \A y \in S \ {x} : str_lt(x, y)
                  IN <<m>> \o sorted(S \ {m})

\* objects.filter(month__contains=str(year))
year_queryset(rows, year) == {r \in rows : str_in(str_of_int(year), r.month)}

\* Sum('net_inflow') over a queryset, in hundredths; NaN if a row holds NaN
RECURSIVE sum_net_inflow(_)
sum_net_inflow(qs) ==
  LET add(r, rest) ==
        IF r.net_inflow.kind # "num" \/ rest.kind # "num" THEN NaNValue
        ELSE [rest EXCEPT !.num = @ + r.net_inflow.num]
      take(r) == add(r, sum_net_inflow(qs \ {r}))
  IN IF qs = {} THEN [kind |-> "num", num |-> 0, scale |-> DECIMAL_PLACES]
     ELSE take(CHOOSE x \in qs : TRUE)

NotFound(view, year) == [call |-> view, code |-> HTTP_404_NOT_FOUND, year |-> year]

YearMatrixView_get(rows, year) ==
  LET data_matrix(qs) ==
        [m \in {r.month : r \in qs} |->
           [c \in {r.scheme_category : r \in {x \in qs : x.month = m}} |->
              (CHOOSE r \in qs : r.month = m /\ r.scheme_category = c).net_inflow]]
      answer(qs) ==
        IF qs = {} THEN NotFound("YearMatrixView", year)
        ELSE [call |-> "YearMatrixView", code |-> HTTP_200_OK, year |-> year,
              months |-> sorted({r.month : r \in qs}),
              categories |-> sorted({r.scheme_category : r \in qs}),
              data |-> data_matrix(qs)]
  IN answer(year_queryset(rows, year))

YearSummaryView_get(rows, year) ==
  LET item(month, month_qs) ==
        [month |-> month,
         small_cap |-> sum_net_inflow({r \in month_qs : r.scheme_category = SMALL_CAP}),
         large_midcap |-> sum_net_inflow({r \in month_qs :
                             r.scheme_category \in LARGE_MIDCAP_BUCKET})]
      summary_data(qs, months) ==
        [k \in 1..Len(months) |-> item(months[k], {r \in qs : r.month = months[k]})]
      validated(data) ==
        IF \E k \in 1..Len(data) :
             data[k].small_cap.kind # "num" \/ data[k].large_midcap.kind # "num"
        THEN [call |-> "YearSummaryView", code |-> HTTP_400_BAD_REQUEST, year |-> year]
        ELSE [call |-> "YearSummaryView", code |-> HTTP_200_OK, year |-> year,
              data |-> data]
      answer(qs) ==
        IF qs = {} THEN NotFound("YearSummaryView", year)
        ELSE validated(summary_data(qs, sorted({r.month : r \in qs})))
  IN answer(year_queryset(rows, year))

(***************************************************************************)
(* State                                                                   *)
(***************************************************************************)
VARIABLES
  store,     \* the rows of the AmfiMonthlyData table
  log,       \* the rows of the DownloadLog table, oldest first
  result,    \* what the last call returned
  doc,       \* the document of the last ingestion
  mon,       \* the month abbreviation of the last call
  yr,        \* the year of the last call
  parse,     \* the locals of the last parse_excel call
  applied,   \* the number of upserts the last ingestion applied
  outcomes,  \* SpecIngest: the statuses of the ingestion runs so far
  lastUp,    \* history: <<month, scheme>> -> the net_inflow of the last upsert applied to it
  arg,       \* SpecPure: the input text
  ret,       \* SpecPure: the value the function returned
  jobs       \* SpecInterleaved: the ingestion runs in progress

vars == <<store, log, result, doc, mon, yr, parse, applied, outcomes, lastUp, arg, ret, jobs>>

NoResult == [call |-> "none"]

\* no function has returned yet
NoReturn == [done |-> FALSE]

\* lastUp after the first n upserts of parsed_data were applied
RECURSIVE record_upserts(_, _, _)
record_upserts(up, parsed_data, n) ==
  IF n = 0 THEN up
  ELSE LET before == record_upserts(up, parsed_data, n - 1)
           rec    == parsed_data[n]
           key    == <<rec.month, rec.scheme>>
       IN [k \in DOMAIN before \cup {key} |->
             IF k = key THEN rec.net_inflow ELSE before[k]]

(***************************************************************************)
(* SpecIngest: one document, drawn from all sheets of an optional header   *)
(* row and at most MaxRows further rows over SheetRowNames, is ingested up *)
(* to MaxRuns times into a store that is empty or holds the rows of an     *)
(* earlier ingestion of the same period.                                   *)
(***************************************************************************)
MaxRows == 4

MaxRuns == 2

SheetRowNames == {"hdr", "ttl", "sml", "dup", "bad", "noi", "blk", "sub"}

Bodies == UNION {[1..n -> SheetRowNames] : n \in 0..MaxRows}

Sheets == Bodies \cup {<<"hdr">> \o b : b \in Bodies}

Files == {Sheet(s, w) : s \in Sheets, w \in Widths} \cup {Unreadable}

SeedFile == Sheet(<<"hdr", "ttl", "dup", "lrg", "sub">>, FullWidth)

SeedRun == _parse_and_store({}, SeedFile, <<"o","c","t">>, 2025, 0)

InitIngest ==
  /\ doc \in Files
  /\ mon = <<"o","c","t">>
  /\ yr = 2025
  /\ \/ store = {} /\ lastUp = <<>>
     \/ store = SeedRun.rows /\ lastUp = record_upserts(<<>>, SeedRun.parse.data, SeedRun.applied)
  /\ log = <<>>
  /\ result = NoResult
  /\ parse = NoParse
  /\ applied = 0
  /\ outcomes = <<>>
  /\ arg = <<>>
  /\ ret = NoReturn
  /\ jobs = <<>>

\* one call of DownloadService._parse_and_store(file_path, month, year)
Ingest(fail) ==
  /\ Len(outcomes) < MaxRuns
  /\ \E r \in {_parse_and_store(store, doc, mon, yr, fail)} :
        /\ fail <= Len(r.parse.data)
        /\ store' = r.rows
        /\ result' = [call |-> "_parse_and_store", status |-> r.status,
                       records_stored |-> r.records_stored]
        /\ parse' = r.parse
        /\ applied' = r.applied
        /\ outcomes' = Append(outcomes, r.status)
        /\ lastUp' = record_upserts(lastUp, r.parse.data, r.applied)
  /\ UNCHANGED <<doc, mon, yr, log, arg, ret, jobs>>

NextIngest == \E fail \in 0..(MaxRows + 1) : Ingest(fail)

SpecIngest == InitIngest /\ [][NextIngest]_vars

(***************************************************************************)
(* Properties of the ingestion of one document (SpecIngest)                *)
(***************************************************************************)
Runs == Len(outcomes)

NumRows == Len(doc.rows)

\* row i of the sheet, 0-based
SheetRow(i) == <<doc.rows[i + 1], doc.ncols>>

Least(S) == CHOOSE x \in S : \A y \in S : x <= y

HeaderRows == {i \in 0..(NumRows - 1) : HeaderHit[SheetRow(i)]}

StartRowsAfter(h) == {i \in (h + 1)..(NumRows - 1) : StartHit[SheetRow(i)]}

EndRowsAfter(s) == {i \in (s + 1)..(NumRows - 1) : EndHit[SheetRow(i)]}

\* the sheet positions of the section start and end of the last parse
AbsStart == parse.header_row + 1 + parse.start_idx

AbsEnd == parse.header_row + 1 + parse.end_idx

\* the rows strictly between the section title row and the terminator row
InnerRows == {i \in 0..(NumRows - 1) : AbsStart < i /\ i < AbsEnd}

\* the document without its row i
WithoutRow(i) ==
  [doc EXCEPT !.rows = SubSeq(doc.rows, 1, i) \o SubSeq(doc.rows, i + 2, NumRows)]

\* row i of the section yields a record: the output is not the output of
\* the document without the row
Contributes(i) == parse_excel(WithoutRow(i), mon, yr).data # parse.data

RawCell(i, col) == RowCells[doc.rows[i + 1]][col + 1]

SchemeMissing(i) == doc.ncols <= SCHEME_COL \/ RawCell(i, SCHEME_COL) = NaN

InflowMissing(i) == doc.ncols <= INFLOW_COL \/ RawCell(i, INFLOW_COL) = NaN

InflowNumeric(i) == ~InflowMissing(i) /\ py_float(RawCell(i, INFLOW_COL)).kind = "num"

SchemeValid(i) ==
  /\ ~SchemeMissing(i)
  /\ str_strip(RawCell(i, SCHEME_COL)) # <<>>
  /\ ~_is_invalid_row(str_strip(RawCell(i, SCHEME_COL)))

SectionParsed == Runs > 0 /\ parse.diag = "Parsed"

\* the stored rows of one (period, category)
StoredUnder(month_label, scheme) ==
  {r \in store : r.month = month_label /\ r.scheme_category = scheme}

\* the stored records without their ids
Records(rows) == {<<r.month, r.scheme_category, r.net_inflow>> : r \in rows}

\* C1: a second complete ingestion of the same document and period leaves
\* the set of (period, category, net_inflow) records and the record count
\* as the first complete ingestion left them
IngestionIdempotent ==
  [][(Runs >= 1 /\ outcomes[Runs] = "parse_success" /\ Len(outcomes') = Runs + 1
        /\ outcomes'[Runs + 1] = "parse_success")
     => (Records(store') = Records(store) /\ Cardinality(store') = Cardinality(store))]_vars

IngestedTwice ==
  /\ outcomes = <<"parse_success", "parse_success">>
  /\ Cardinality(store) >= 3
  /\ \E i, j \in 1..Len(parse.data) : i # j /\ parse.data[i].scheme = parse.data[j].scheme

\* C3: a row inside the located section whose scheme-name cell is empty or
\* missing yields no record
EmptySchemeRowYieldsNoRecord ==
  SectionParsed => \A i \in InnerRows : SchemeMissing(i) => ~Contributes(i)

\* C4: a row of the section whose inflow cell is non-numeric, empty or
\* missing yields no record, and every row with a valid scheme name and a
\* numeric inflow cell yields its record
BadInflowRowYieldsNoRecord ==
  SectionParsed =>
    /\ \A i \in InnerRows : ~InflowNumeric(i) => ~Contributes(i)
    /\ \A i \in InnerRows : (SchemeValid(i) /\ InflowNumeric(i)) => Contributes(i)

\* C7 as stated: no two records produced from one document share a category
NoTwoRecordsShareCategory ==
  \A i, j \in 1..Len(parse.data) :
    i # j => parse.data[i].scheme # parse.data[j].scheme

\* the rows from the section title row up to the terminator row
SectionRows == [k \in 1..(AbsEnd - AbsStart) |-> SheetRow(AbsStart + k - 1)]

EmittingRows == SelectSeq(SectionRows, LAMBDA r : ParsedRow[r].emit)

LastWith(scheme) ==
  LET ks == {k \in 1..Len(parse.data) : parse.data[k].scheme = scheme}
  IN parse.data[CHOOSE k \in ks : \A x \in ks : x <= k]

\* C7 as amended: the records are one per non-skipped row of the section, in
\* row order, and after a complete run the store holds one row per
\* (period, category) of them, with the value of the last such record
OneRecordPerRowOneRowPerKey ==
  SectionParsed =>
    /\ Len(parse.data) = Len(EmittingRows)
    /\ \A k \in 1..Len(parse.data) :
         /\ parse.data[k].scheme = ParsedRow[EmittingRows[k]].scheme
         /\ parse.data[k].net_inflow = ParsedRow[EmittingRows[k]].net_inflow
         /\ parse.data[k].month = _format_month_label(mon, yr)
    /\ outcomes[Runs] = "parse_success" =>
         \A k \in 1..Len(parse.data) :
           LET found == StoredUnder(parse.data[k].month, parse.data[k].scheme)
           IN /\ Cardinality(found) = 1
              /\ \A r \in found :
                   r.net_inflow = to_decimal(LastWith(parse.data[k].scheme).net_inflow)

TwoRowsSameCategoryStored ==
  /\ SectionParsed
  /\ outcomes[Runs] = "parse_success"
  /\ \E i, j \in 1..Len(parse.data) :
       i < j /\ parse.data[i].scheme = parse.data[j].scheme
             /\ parse.data[i].net_inflow # parse.data[j].net_inflow

\* one of the three scans of the locator finds no row
LocatorFails ==
  /\ doc.readable
  /\ \/ HeaderRows = {}
     \/ /\ HeaderRows # {}
        /\ \/ StartRowsAfter(Least(HeaderRows)) = {}
           \/ /\ StartRowsAfter(Least(HeaderRows)) # {}
              /\ EndRowsAfter(Least(StartRowsAfter(Least(HeaderRows)))) = {}

\* C9: when the locator fails in any of its three scans the ingestion
\* produces no record and leaves the store as it was
LocatorFailureWritesNothing ==
  [][(Len(outcomes') = Runs + 1 /\ LocatorFails)
     => /\ parse'.data = <<>>
        /\ result'.status = "parse_failed" /\ result'.records_stored = 0
        /\ applied' = 0
        /\ store' = store]_vars

UnterminatedSectionWithDataRows ==
  /\ Runs > 0
  /\ LocatorFails
  /\ store # {}
  /\ parse.start_idx # NoneIdx /\ parse.end_idx = NoneIdx
  /\ \E i \in (AbsStart + 1)..(NumRows - 1) : ParsedRow[SheetRow(i)].emit

\* C10: each scan returns its first match, and a located section has
\* start < end <= number of rows
FirstMatchWins ==
  (Runs > 0 /\ doc.readable) =>
    /\ parse.header_row = (IF HeaderRows = {} THEN NoneIdx ELSE Least(HeaderRows))
    /\ parse.header_row # NoneIdx =>
         LET S == StartRowsAfter(parse.header_row)
         IN /\ parse.start_idx = (IF S = {} THEN NoneIdx
                                  ELSE Least(S) - (parse.header_row + 1))
            /\ parse.start_idx # NoneIdx =>
                 LET E == EndRowsAfter(AbsStart)
                 IN /\ parse.end_idx = (IF E = {} THEN NoneIdx
                                        ELSE Least(E) - (parse.header_row + 1))
                    /\ parse.end_idx # NoneIdx =>
                         /\ parse.start_idx < parse.end_idx
                         /\ parse.end_idx <= Len(doc.rows) - (parse.header_row + 1)
                         /\ AbsStart < AbsEnd /\ AbsEnd <= NumRows

SeveralCandidatesLocated ==
  /\ SectionParsed
  /\ Cardinality(HeaderRows) >= 2
  /\ Cardinality(StartRowsAfter(parse.header_row)) >= 2
  /\ Cardinality(EndRowsAfter(AbsStart)) >= 2

(***************************************************************************)
(* Spec: the trigger view and the two year views over one store and one    *)
(* download log.  The server answers a download with one of Documents, an  *)
(* error status or an exception; the log holds at most MaxLog entries.     *)
(***************************************************************************)
MaxLog == 2

DocA == Sheet(<<"blk", "blk", "hdr", "blk", "blk", "ttl", "sml", "lrg", "sub">>, FullWidth)

DocB == Sheet(<<"hdr", "ttl", "sml", "dup", "sub">>, FullWidth)

DocEmptySection == Sheet(<<"hdr", "ttl", "sub">>, FullWidth)

DocNoHeader == Sheet(<<"blk", "sml", "sub">>, FullWidth)

DocNoSection == Sheet(<<"hdr", "sml", "sub">>, FullWidth)

Documents == {DocA, DocB, DocEmptySection, DocNoHeader, DocNoSection, Unreadable}

HttpAnswers ==
  {[kind |-> "ok", code |-> 200, body |-> d] : d \in Documents}
  \cup {[kind |-> "ok", code |-> 404, body |-> Unreadable]}
  \cup {[kind |-> k, code |-> NoStatus, body |-> Unreadable] :
          k \in {"timeout", "connection", "exception"}}

\* the query parameters <<month, year>> of the trigger requests
TriggerParams == {<<<<"o","c","t">>, <<"2","0","2","5">>>>, <<<<"J","A","N">>, <<"2","0","0","6">>>>, <<<<"o","c","t">>, <<"1","9","2","5">>>>,
                  <<<<"x","y","z">>, <<"2","0","2","5">>>>, <<<<"o","c","t">>, <<"2","0","x","5">>>>, <<None, None>>}

\* datetime.now() as <<month number, year>>
Clock == {<<10, 2025>>}

QueryYears == {2025, 2006, 25}

\* the number of records each document yields, and with it the upserts on
\* which the database can raise
NumRecords == Table([d \in Documents |-> Len(parse_excel(d, <<"o","c","t">>, 2025).data)])

FailPoints(http) == IF http.kind = "ok" /\ http.code = 200
                    THEN 0..NumRecords[http.body] ELSE {0}

Init ==
  /\ store = {}
  /\ log = <<>>
  /\ result = NoResult
  /\ doc = Unreadable
  /\ mon = <<>>
  /\ yr = 0
  /\ parse = NoParse
  /\ applied = 0
  /\ outcomes = <<>>
  /\ lastUp = <<>>
  /\ arg = <<>>
  /\ ret = NoReturn
  /\ jobs = <<>>

\* POST /api/download/trigger/
Trigger(month, year, now, http, fail) ==
  /\ Len(log) < MaxLog
  /\ \E r \in {TriggerDownloadView_post(log, store, month, year, now, http, fail)} :
     \E s \in {r.service} :
        /\ log' = s.entries
        /\ store' = s.rows
        /\ result' = [call |-> "TriggerDownloadView", code |-> r.code, status |-> r.status,
                      service_status |-> s.status, parse_status |-> s.parse_status,
                      parsed_records |-> s.parsed_records, downloaded |-> s.downloaded,
                      request_month |-> month, request_year |-> year]
        /\ doc' = IF s.ingest.status # Absent THEN s.file ELSE doc
        /\ mon' = IF Len(s.entries) > Len(log) THEN s.entries[Len(s.entries)].month ELSE mon
        /\ yr' = IF Len(s.entries) > Len(log) THEN s.entries[Len(s.entries)].year ELSE yr
        /\ parse' = s.ingest.parse
        /\ applied' = s.ingest.applied
        /\ lastUp' = record_upserts(lastUp, s.ingest.parse.data, s.ingest.applied)
  /\ UNCHANGED <<outcomes, arg, ret, jobs>>

\* GET /api/amfi/year/<year>/
YearMatrix(year) ==
  /\ result' = YearMatrixView_get(store, year)
  /\ UNCHANGED <<store, log, doc, mon, yr, parse, applied, outcomes, lastUp, arg, ret, jobs>>

\* GET /api/amfi/year/<year>/summary/
YearSummary(year) ==
  /\ result' = YearSummaryView_get(store, year)
  /\ UNCHANGED <<store, log, doc, mon, yr, parse, applied, outcomes, lastUp, arg, ret, jobs>>

Next ==
  \/ \E p \in TriggerParams, now \in Clock, http \in HttpAnswers :
       \E fail \in FailPoints(http) : Trigger(p[1], p[2], now, http, fail)
  \/ \E year \in QueryYears : YearMatrix(year)
  \/ \E year \in QueryYears : YearSummary(year)

Spec == Init /\ [][Next]_vars

(***************************************************************************)
(* Properties of the store and of the views (Spec)                         *)
(***************************************************************************)
\* the (period, category) pairs of a set of rows
Keys(rows) == {<<r.month, r.scheme_category>> : r \in rows}

\* C2: the store holds one row per (period, category) that was ever
\* upserted, and the row holds the net_inflow of the last upsert applied to it
OneRowPerKeyLastUpsertWins ==
  /\ Keys(store) = DOMAIN lastUp
  /\ \A r \in store :
       /\ Cardinality(StoredUnder(r.month, r.scheme_category)) = 1
       /\ r.net_inflow = to_decimal(lastUp[<<r.month, r.scheme_category>>])

\* a second ingestion overwrote, under the same period label, a value a
\* first ingestion had stored
OverwrittenByLaterRun ==
  /\ Len(log) = 2
  /\ log[1].status = "success" /\ log[2].status = "success"
  /\ log[1].url # log[2].url
  /\ _format_month_label(log[1].month, log[1].year)
       = _format_month_label(log[2].month, log[2].year)
  /\ doc = DocB
  /\ result.call = "TriggerDownloadView" /\ result.parse_status = "parse_success"
  /\ Cardinality(store) = 2
  /\ \E r \in store : r.scheme_category = SMALL_CAP
                      /\ r.net_inflow = to_decimal(py_float(<<"-","1","2",".","5">>))

\* the parses that stopped at a missing header or section
NotFoundDiags == {"HeaderNotFound", "SectionNotFound"}

\* C5: an ingestion whose header or section was not found and an ingestion
\* that found the section and took no record from it report different
\* outcomes: some field of the response differs
NotFoundDistinguishedFromEmpty ==
  [][(/\ result.call = "TriggerDownloadView" /\ result.parse_status # Absent
      /\ result'.call = "TriggerDownloadView" /\ result'.parse_status # Absent
      /\ parse.diag \in NotFoundDiags
      /\ parse'.diag = "Parsed" /\ parse'.data = <<>>)
     => result' # result]_vars

\* the rows whose period label ends with the two-digit suffix of the year
YearSuffix(year) == <<"-">> \o str_last2(str_of_int(year))

EndsWith(s, suffix) ==
  Len(s) >= Len(suffix) /\ SubSeq(s, Len(s) - Len(suffix) + 1, Len(s)) = suffix

RowsOfYear(year) == {r \in store : EndsWith(r.month, YearSuffix(year))}

\* C6: the year views select the stored rows whose period label ends with
\* the two-digit suffix of the requested year
YearViewsSelectBySuffix ==
  /\ result.call = "YearMatrixView" =>
       /\ (result.code = HTTP_200_OK) <=> (RowsOfYear(result.year) # {})
       /\ result.code = HTTP_200_OK =>
            /\ DOMAIN result.data = {r.month : r \in RowsOfYear(result.year)}
            /\ \A m \in DOMAIN result.data :
                 {<<c, result.data[m][c]>> : c \in DOMAIN result.data[m]}
                   = {<<r.scheme_category, r.net_inflow>> :
                        r \in {x \in RowsOfYear(result.year) : x.month = m}}
  /\ result.call = "YearSummaryView" =>
       /\ (result.code = HTTP_200_OK) <=> (RowsOfYear(result.year) # {})
       /\ result.code = HTTP_200_OK =>
            {result.data[k].month : k \in 1..Len(result.data)}
              = {r.month : r \in RowsOfYear(result.year)}

(***************************************************************************)
(* SpecPure: _standardize_scheme_name applied to one text.  The input is   *)
(* any text of at most MaxText characters over Alphabet, a scheme cell of  *)
(* RowCells, or a key of SCHEME_MAPPING with a space on either side.       *)
(***************************************************************************)
MaxText == 3

Alphabet == {" ", "e", "L", "s", "-", "1"}

TextsOfLen(n) == [1..n -> Alphabet]

ShortTexts == UNION {TextsOfLen(n) : n \in 0..MaxText}

SchemeCells == {RowCells[n][SCHEME_COL + 1] : n \in RowNames} \ {NaN}

MappingKeys == {SCHEME_MAPPING[k][1] : k \in 1..Len(SCHEME_MAPPING)}

\* two keys of SCHEME_MAPPING in one text
KeyPairs == {k1 \o <<" ">> \o k2 : k1, k2 \in MappingKeys}

PureInputs ==
  ShortTexts \cup SchemeCells \cup MappingKeys
             \cup {<<" ">> \o k \o <<" ">> : k \in MappingKeys}
             \cup {str_title(k) : k \in MappingKeys}
             \cup KeyPairs

InitPure ==
  /\ arg \in PureInputs
  /\ ret = NoReturn
  /\ jobs = <<>>
  /\ store = {}
  /\ log = <<>>
  /\ result = NoResult
  /\ doc = Unreadable
  /\ mon = <<>>
  /\ yr = 0
  /\ parse = NoParse
  /\ applied = 0
  /\ outcomes = <<>>
  /\ lastUp = <<>>

\* ExcelParser._standardize_scheme_name(arg)
Standardize ==
  /\ ~ret.done
  /\ ret' = [done |-> TRUE, value |-> _standardize_scheme_name(arg)]
  /\ UNCHANGED <<store, log, result, doc, mon, yr, parse, applied, outcomes, lastUp, arg, jobs>>

NextPure == Standardize

SpecPure == InitPure /\ [][NextPure]_vars

\* C8: for every non-empty input text the standardizer returns a non-empty
\* text
StandardizerNeverEmpty ==
  (ret.done /\ arg # <<>>) => ret.value # <<>>

\* the text the patterns are looked up in
Lowered(scheme_raw) == str_strip(str_lower(scheme_raw))

\* entry k of the table is the first whose pattern occurs in the text
FirstEntry(k, scheme_raw) ==
  /\ str_in(SCHEME_MAPPING[k][1], Lowered(scheme_raw))
  /\ \A h \in 1..(k - 1) : ~str_in(SCHEME_MAPPING[h][1], Lowered(scheme_raw))

NoEntry(scheme_raw) ==
  \A k \in 1..Len(SCHEME_MAPPING) : ~str_in(SCHEME_MAPPING[k][1], Lowered(scheme_raw))

HasLargeAndMid(scheme_raw) == str_in(<<"l","a","r","g","e"," ","&"," ","m","i","d"," ","c","a","p"," ","f","u","n","d">>, Lowered(scheme_raw))

\* C15 as stated: the first entry in table order decides, every input
\* containing "large & mid cap fund" maps to LARGE & MID CAP FUND, and an
\* input matching no pattern maps to its title-cased trimmed text
LargeAndMidAlwaysWins ==
  ret.done =>
    /\ \A k \in 1..Len(SCHEME_MAPPING) : FirstEntry(k, arg) => ret.value = SCHEME_MAPPING[k][2]
    /\ HasLargeAndMid(arg) => ret.value = <<"L","A","R","G","E"," ","&"," ","M","I","D"," ","C","A","P"," ","F","U","N","D">>
    /\ NoEntry(arg) => ret.value = str_title(str_strip(arg))

\* C15 as amended: the first entry in table order decides; an input
\* containing "large & mid cap fund" never maps to MID CAP FUND, and maps
\* to LARGE & MID CAP FUND unless it also contains "multi cap fund" or
\* "large cap fund"; an input matching no pattern maps to its title-cased
\* trimmed text
FirstEntryInTableOrderWins ==
  ret.done =>
    /\ \A k \in 1..Len(SCHEME_MAPPING) : FirstEntry(k, arg) => ret.value = SCHEME_MAPPING[k][2]
    /\ HasLargeAndMid(arg) =>
         /\ ret.value # <<"M","I","D"," ","C","A","P"," ","F","U","N","D">>
         /\ (~str_in(<<"m","u","l","t","i"," ","c","a","p"," ","f","u","n","d">>, Lowered(arg)) /\ ~str_in(<<"l","a","r","g","e"," ","c","a","p"," ","f","u","n","d">>, Lowered(arg)))
              => ret.value = <<"L","A","R","G","E"," ","&"," ","M","I","D"," ","C","A","P"," ","F","U","N","D">>
    /\ NoEntry(arg) => ret.value = str_title(str_strip(arg))

LargeAndMidAfterMidCap ==
  /\ ret.done
  /\ HasLargeAndMid(arg)
  /\ str_in(<<"m","i","d"," ","c","a","p"," ","f","u","n","d"," ">>, Lowered(arg))
  /\ ret.value = <<"L","A","R","G","E"," ","&"," ","M","I","D"," ","C","A","P"," ","F","U","N","D">>

\* C16: every label of the mapping table is SMALL CAP FUND or a member of
\* LARGE_MIDCAP_BUCKET and not both, so the category of an input that
\* matched a pattern is selected by exactly one of the two summary filters
MappedLabelInExactlyOneBucket ==
  /\ \A k \in 1..Len(SCHEME_MAPPING) :
       (SCHEME_MAPPING[k][2] = SMALL_CAP) # (SCHEME_MAPPING[k][2] \in LARGE_MIDCAP_BUCKET)
  /\ (ret.done /\ ~NoEntry(arg))
       => (ret.value = SMALL_CAP) # (ret.value \in LARGE_MIDCAP_BUCKET)

SectoralInputStandardized ==
  /\ ret.done
  /\ arg = <<" ","s","e","c","t","o","r","a","l","/","t","h","e","m","a","t","i","c"," ">>
  /\ ret.value = <<"S","E","C","T","O","R","A","L","/","T","H","E","M","A","T","I","C"," ","F","U","N","D","S">>
  /\ ret.value \in LARGE_MIDCAP_BUCKET

\* the scheme-name cell of the row, "" when the row has none
SchemeCellOf(r) ==
  IF r[2] > SCHEME_COL /\ RowCells[r[1]][SCHEME_COL + 1] # NaN
  THEN RowCells[r[1]][SCHEME_COL + 1] ELSE <<>>

\* the rows whose scheme-name cell holds a terminator phrase or a
\* section-title phrase, in any case
NonDataRow ==
  Table([r \in Rows |->
           \/ any_keyword_in(END_KEYWORDS, str_lower(SchemeCellOf(r)))
           \/ str_in(<<"g","r","o","w","t","h","/","e","q","u","i","t","y">>, str_lower(SchemeCellOf(r)))
           \/ str_in(<<"o","r","i","e","n","t","e","d"," ","s","c","h","e","m","e">>, str_lower(SchemeCellOf(r)))])

\* the category a record of the row would carry
CategoryOfRow == Table([r \in Rows |-> _standardize_scheme_name(str_strip(SchemeCellOf(r)))])

NonDataCell(i) == NonDataRow[SheetRow(i)]

\* C11: no record comes from a row of the located section, from its title
\* row to its terminator row, whose scheme-name cell holds a terminator
\* phrase or a section-title phrase
NonDataRowsYieldNoRecord ==
  SectionParsed =>
    /\ \A i \in AbsStart..AbsEnd :
         NonDataCell(i) =>
           \A k \in 1..Len(parse.data) : parse.data[k].scheme # CategoryOfRow[SheetRow(i)]
    /\ Len(parse.data) <= Cardinality({i \in AbsStart..(AbsEnd - 1) : ~NonDataCell(i)})

TitleRowsInsideSection ==
  /\ SectionParsed
  /\ NonDataCell(AbsStart) /\ NonDataCell(AbsEnd)
  /\ \E i \in InnerRows : NonDataCell(i)
  /\ \E i \in InnerRows : ~NonDataCell(i) /\ Contributes(i)

\* the categories the store held before the first run
SeedCategories == {r.scheme_category : r \in SeedRun.rows}

\* C12: a run ends in exactly one of three statuses: parse_success only
\* with every record written and at least one, parse_failed only with no
\* record produced and the store untouched, parse_error exactly when an
\* upsert raised, the records written before it staying in the store
RunEndsInOneOfThreeStatuses ==
  [][Len(outcomes') = Runs + 1
     => /\ outcomes'[Runs + 1] \in {"parse_success", "parse_failed", "parse_error"}
        /\ result'.status = outcomes'[Runs + 1]
        /\ outcomes'[Runs + 1] = "parse_success"
             => /\ applied' >= 1 /\ applied' = Len(parse'.data)
                /\ result'.records_stored = applied'
                /\ store' # {}
        /\ outcomes'[Runs + 1] = "parse_failed"
             => /\ parse'.data = <<>> /\ applied' = 0
                /\ result'.records_stored = 0
                /\ store' = store
        /\ (outcomes'[Runs + 1] = "parse_error") = (applied' < Len(parse'.data))
        /\ \A k \in 1..applied' :
             \E r \in store' : /\ r.month = parse'.data[k].month
                               /\ r.scheme_category = parse'.data[k].scheme]_vars

ErrorAfterPartialWrite ==
  /\ Runs > 0
  /\ outcomes[Runs] = "parse_error"
  /\ applied >= 1 /\ applied < Len(parse.data)
  /\ \E k \in 1..applied, r \in store :
       /\ r.scheme_category = parse.data[k].scheme
       /\ r.scheme_category \notin SeedCategories

\* C13: whatever the document (unreadable, without header, without
\* section, with malformed rows) and whether or not the store raised, the
\* ingestion returned an outcome with a status and a record count, and
\* every failure to read or locate is the outcome parse_failed with count 0
IngestionAlwaysReturnsOutcome ==
  Runs > 0 =>
    /\ result.call = "_parse_and_store"
    /\ result.status \in {"parse_success", "parse_failed", "parse_error"}
    /\ result.records_stored \in 0..Len(parse.data)
    /\ result.status = outcomes[Runs]
    /\ parse.diag \in {"Exception", "HeaderNotFound", "SectionNotFound", "Parsed"}
    /\ parse.diag = "Exception" <=> ~doc.readable
    /\ parse.diag # "Parsed" => result.status = "parse_failed" /\ result.records_stored = 0

RunAfterStoreErrorOnMalformedSheet ==
  /\ SectionParsed
  /\ outcomes = <<"parse_error", "parse_error">>
  /\ \E i \in InnerRows : ~InflowMissing(i) /\ ~InflowNumeric(i)

(***************************************************************************)
(* Two ingestion runs on one store, interleaved upsert by upsert            *)
(* (SpecInterleaved).  Each run is DownloadService._parse_and_store cut at  *)
(* its database calls: the parse, then one update_or_create per step.       *)
(***************************************************************************)
Procs == {1, 2}

InterleavedFiles == {DocA, DocB, DocEmptySection, Unreadable}

\* the <<month, year>> arguments of the two runs: two different periods
PeriodPairs == {<< <<<<"o","c","t">>, 2025>>, <<<<"J","A","N">>, 2006>> >>,
                << <<<<"n","o","v">>, 2025>>, <<<<"o","c","t">>, 2025>> >>,
                << <<<<"o","c","t">>, 2025>>, <<<<"o","c","t">>, 2024>> >>}

NewJob(file, period, fail) ==
  [file |-> file, month |-> period[1], year |-> period[2], fail |-> fail,
   data |-> <<>>, pos |-> 0, status |-> "new"]

InitInterleaved ==
  /\ store \in {{}, SeedRun.rows}
  /\ \E periods \in PeriodPairs :
       \E f1, f2 \in InterleavedFiles :
         \E fail1 \in FailPoints([kind |-> "ok", code |-> 200, body |-> f1]),
            fail2 \in FailPoints([kind |-> "ok", code |-> 200, body |-> f2]) :
           jobs = [base |-> store, order |-> <<>>,
                   run |-> <<NewJob(f1, periods[1], fail1), NewJob(f2, periods[2], fail2)>>]
  /\ log = <<>>
  /\ result = NoResult
  /\ doc = Unreadable
  /\ mon = <<>>
  /\ yr = 0
  /\ parse = NoParse
  /\ applied = 0
  /\ outcomes = <<>>
  /\ lastUp = <<>>
  /\ arg = <<>>
  /\ ret = NoReturn

\* run p reads and parses its file
ParseStep(p) ==
  /\ jobs.run[p].status = "new"
  /\ \E parsed_data \in {parse_excel(jobs.run[p].file, jobs.run[p].month, jobs.run[p].year).data} :
       jobs' = [jobs EXCEPT !.run[p].data = parsed_data,
                            !.run[p].pos = 1,
                            !.run[p].status = IF parsed_data = <<>> THEN "parse_failed"
                                              ELSE "storing"]
  /\ UNCHANGED <<store, log, result, doc, mon, yr, parse, applied, outcomes, lastUp, arg, ret>>

\* run p makes its next update_or_create call
UpsertStep(p) ==
  /\ jobs.run[p].status = "storing"
  /\ \E j \in {jobs.run[p]} :
     \E u \in {update_or_create(store, j.data[j.pos])} :
       IF j.pos = j.fail \/ u.raised
       THEN /\ jobs' = [jobs EXCEPT !.run[p].status = "parse_error"]
            /\ store' = store
       ELSE /\ jobs' = [jobs EXCEPT !.order = Append(@, p),
                                    !.run[p].pos = j.pos + 1,
                                    !.run[p].status = IF j.pos = Len(j.data)
                                                      THEN "parse_success" ELSE "storing"]
            /\ store' = u.rows
  /\ UNCHANGED <<log, result, doc, mon, yr, parse, applied, outcomes, lastUp, arg, ret>>

NextInterleaved == \E p \in Procs : ParseStep(p) \/ UpsertStep(p)

SpecInterleaved == InitInterleaved /\ [][NextInterleaved]_vars

\* the store after the whole run j on the table rows
AfterRun(rows, j) == _parse_and_store(rows, j.file, j.month, j.year, j.fail).rows

JobLabel(j) == _format_month_label(j.month, j.year)

Finished(j) == j.status \in {"parse_success", "parse_failed", "parse_error"}

Ingested(file) ==
  result.call = "TriggerDownloadView" /\ parse.diag # "None" /\ doc = file

Abbreviations == {MONTH_NAMES[k][1] : k \in 1..Len(MONTH_NAMES)}

UpperCased(s) == [i \in 1..Len(s) |-> char_upper(s[i])]

\* first character lower case, the others upper case
Inverted(s) == [i \in 1..Len(s) |-> IF i = 1 THEN char_lower(s[i]) ELSE char_upper(s[i])]

OtherTokens == {<<"x","y","z">>, <<"s","e","p","t">>, <<"O","C","T","O","B","E","R">>, <<" ","o","c","t">>, <<"o","-","c","t">>, <<>>}

MonthTokens ==
  Abbreviations \cup {UpperCased(a) : a \in Abbreviations}
                \cup {str_title(a) : a \in Abbreviations}
                \cup {Inverted(a) : a \in Abbreviations}
                \cup OtherTokens

LabelYears == {1000, 1999, 2000, 2001, 2006, 2009, 2010, 2025, 2099, 2100, 9999}

InitLabel ==
  /\ arg \in MonthTokens
  /\ yr \in LabelYears
  /\ ret = NoReturn
  /\ jobs = <<>>
  /\ store = {}
  /\ log = <<>>
  /\ result = NoResult
  /\ doc = Unreadable
  /\ mon = <<>>
  /\ parse = NoParse
  /\ applied = 0
  /\ outcomes = <<>>
  /\ lastUp = <<>>

\* ExcelParser._format_month_label(arg, yr)
FormatLabel ==
  /\ ~ret.done
  /\ ret' = [done |-> TRUE, value |-> _format_month_label(arg, yr)]
  /\ UNCHANGED <<store, log, result, doc, mon, yr, parse, applied, outcomes, lastUp, arg, jobs>>

NextLabel == FormatLabel

SpecLabel == InitLabel /\ [][NextLabel]_vars

\* the abbreviation with its first letter in upper case and the others in
\* lower case
Capitalised(s) ==
  [i \in 1..Len(s) |-> IF i = 1 THEN char_upper(s[i]) ELSE char_lower(s[i])]

\* the tens and units digits of the year
TwoDigits(year) == <<DigitChars[((year % 100) \div 10) + 1], DigitChars[(year % 10) + 1]>>

\* C18: for each of the twelve abbreviations in any case and a four-digit
\* year the label is "01-", the capitalised abbreviation, "-" and the last
\* two digits of the year with their leading zero; any other token is
\* title-cased instead
LabelIsDayMonthTwoDigitYear ==
  ret.done =>
    /\ str_lower(arg) \in Abbreviations
         => ret.value = <<"0","1","-">> \o Capitalised(arg) \o <<"-">> \o TwoDigits(yr)
    /\ str_lower(arg) \notin Abbreviations
         => ret.value = <<"0","1","-">> \o str_title(arg) \o <<"-">> \o TwoDigits(yr)
    /\ (arg = <<"o","c","t">> /\ yr = 2025) => ret.value = <<"0","1","-","O","c","t","-","2","5">>
    /\ (arg = <<"J","A","N">> /\ yr = 2006) => ret.value = <<"0","1","-","J","a","n","-","0","6">>

UpperCaseMonthOfYearWithZero ==
  /\ ret.done
  /\ arg = <<"J","A","N">> /\ yr = 2006
  /\ ret.value = <<"0","1","-","J","a","n","-","0","6">>

\* the step is a trigger request
Triggered == result'.call = "TriggerDownloadView"

\* the entry the step appended to the log
NewEntry == log'[Len(log')]

\* C19: once a successful download of a URL is in the log, a later trigger
\* for that URL is skipped and makes no HTTP download
SuccessfulUrlNeverDownloadedAgain ==
  [][(/\ Triggered
      /\ Len(log') = Len(log) + 1
      /\ has_successful_download(log, NewEntry.url))
     => (NewEntry.status = "skipped" /\ ~result'.downloaded)]_vars

\* the request names a month and a year, as the view tests them
Dated(month, year) == month # None /\ month # <<>> /\ year # None /\ year # <<>>

\* the request reaches _process_download: it names no date, or a year that
\* is a number and one of the twelve abbreviations in any case
PassesValidation(month, year) ==
  \/ ~Dated(month, year)
  \/ py_int(year) # NoneIdx /\ str_lower(month) \in Abbreviations

\* C20: a trigger that passes the month validation appends exactly one
\* log entry, whose status is the status of the returned result; a trigger
\* rejected for its month or year appends no entry, downloads nothing and
\* leaves the store as it was
TriggerLogsExactlyOneEntry ==
  [][Triggered =>
       IF PassesValidation(result'.request_month, result'.request_year)
       THEN /\ Len(log') = Len(log) + 1
            /\ SubSeq(log', 1, Len(log)) = log
            /\ NewEntry.status \in {"success", "failed", "skipped"}
            /\ NewEntry.status = result'.service_status
            /\ NewEntry.status = result'.status
            /\ (NewEntry.status = "skipped") = ~result'.downloaded
       ELSE /\ log' = log
            /\ store' = store
            /\ ~result'.downloaded
            /\ result'.service_status = "error" /\ result'.status = "error"]_vars

SkippedTriggerLogged ==
  /\ Len(log) = 2
  /\ log[1].status = "success" /\ log[2].status = "skipped"
  /\ log[1].url = log[2].url
  /\ result.call = "TriggerDownloadView"
  /\ result.request_month = <<"o","c","t">>
  /\ result.service_status = "skipped" /\ ~result.downloaded
  /\ store # {}

\* C21: in every outcome of an ingestion run the reported records_stored is
\* the number of upserts the run applied to the store
ReportedCountIsAppliedUpserts ==
  [][Len(outcomes') = Runs + 1 => result'.records_stored = applied']_vars

\* C22: when a trigger is answered skipped right after the download of the
\* same URL, the store holds a row for every (period, category) that the
\* parse of that download produced
SkipOnlyWithCompleteData ==
  [][(/\ Triggered
      /\ Len(log) >= 1 /\ Len(log') = Len(log) + 1
      /\ NewEntry.status = "skipped"
      /\ log[Len(log)].status = "success"
      /\ log[Len(log)].url = NewEntry.url)
     => \A k \in 1..Len(parse.data) :
          \E r \in store' : /\ r.month = parse.data[k].month
                            /\ r.scheme_category = parse.data[k].scheme]_vars
====
